---- MODULE Spec2Model ----
(***************************************************************************)
(* Model of the connection bridge (library/conn_bridge.c) and of the       *)
(* stream-link adapter (library/ziti_src.c) of ziti-sdk-c.                 *)
(*                                                                         *)
(* One bridge session is modelled: the session record (struct             *)
(* ziti_bridge_s), the remote connection it is attached to, the local uv   *)
(* handle, the buffer pool and the idle deadline.  Every callback of the   *)
(* bridge is one action; the callbacks are pure operators on a "world"     *)
(* record (the objects the callback can touch), so that a callback that    *)
(* calls close_bridge is one atomic step, as on the single-threaded loop.  *)
(***************************************************************************)
EXTENDS Integers, FiniteSets, Sequences, TLC

\* #define BRIDGE_POOL_SIZE 16
BRIDGE_POOL_SIZE == 16
BRIDGE_MSG_SIZE == 32 * 1024

\* largest number of bytes one read or one remote delivery carries
MaxLen == 2
\* largest idle timeout (in ticks) the embedder sets
MaxTimeout == 2

VARIABLES
    br,       \* struct ziti_bridge_s, plus "state": none / live / freed
    conn,     \* the remote connection as far as the bridge uses it
    handle,   \* the local uv handle (input == output in ziti_conn_bridge)
    pool,     \* br->input_pool
    crashed,  \* the process dereferenced NULL
    ev,       \* the last event handled (kind, inputs)
    fx,       \* what the last handler did to its collaborators
    ret,      \* value the last handler returned to its caller
    since,    \* ticks since the last traffic event or timeout setting
    hist,     \* what has happened to the session so far
    zl,       \* the stream-link node (ziti_link_t) and its consumer
    fdbr,     \* struct fd_bridge_s of ziti_conn_bridge_fds
    sent      \* lengths of the remote writes the last handler submitted

vars == <<br, conn, handle, pool, crashed, ev, fx, ret, since, hist, zl, fdbr,
          sent>>

----------------------------------------------------------------------------
(* Values of ssize_t lengths and statuses: a byte count, or a named code.   *)

Bytes(n) == [k |-> "len", n |-> n]
Code(c) == [k |-> c, n |-> 0]

ZITI_OK == Bytes(0)
ZITI_EOF == Code("ZITI_EOF")
ZITI_CONN_CLOSED == Code("ZITI_CONN_CLOSED")
ZITI_ERR == Code("ZITI_ERR")
ZITI_INVALID_STATE == Code("ZITI_INVALID_STATE")
UV_EOF == Code("UV_EOF")
UV_ENOBUFS == Code("UV_ENOBUFS")
UV_EAGAIN == Code("UV_EAGAIN")
UV_ECANCELED == Code("UV_ECANCELED")
UV_EINVAL == Code("UV_EINVAL")
UV_ECONNRESET == Code("UV_ECONNRESET")
UV_ECONNABORTED == Code("UV_ECONNABORTED")
UV_EPIPE == Code("UV_EPIPE")
NoRet == Code("void")

Min(a, b) == IF a < b THEN a ELSE b

IsPos(v) == v.k = "len" /\ v.n > 0
IsNeg(v) == v.k # "len"

StreamTypes == {"UV_TCP", "UV_NAMED_PIPE", "UV_TTY"}

----------------------------------------------------------------------------
(* Initial objects.                                                         *)

NoBridge ==
    [state |-> "none", closed |-> FALSE, ziti_eof |-> FALSE, input_eof |-> FALSE,
     input |-> FALSE, input_throttle |-> FALSE, idle_timeout |-> 0, idler |-> -1,
     close_cb |-> "none", data |-> "user", fdbr |-> FALSE]

NewConn ==
    [bridged |-> FALSE, data_cb |-> FALSE, data |-> FALSE,
     close_reqs |-> 0, close_wr |-> 0, wr_pending |-> 0]

NewHandle ==
    [type |-> "none", data |-> "user", reading |-> FALSE, closes |-> 0,
     shut_pending |-> 0, two |-> FALSE, istate |-> "none", ostate |-> "none"]

\* no struct fd_bridge_s; "at_in" and "at_out" are the states the input and
\* the output handle were in when the close notification was invoked
NoFdBridge ==
    [state |-> "none", cb |-> FALSE, notified |-> 0,
     at_in |-> "none", at_out |-> "none"]

NoPool == [exists |-> FALSE, out |-> 0, leaked |-> 0, dbl |-> 0]

\* "tlog" is the order of the steps of the last teardown
NoHist ==
    [err |-> FALSE, idle |-> FALSE, leof |-> FALSE, reof |-> FALSE,
     idleT |-> -1, teardowns |-> 0, tlog |-> << >>]

\* ziti_src_init: the link exists, no remote connection yet; "read" is the
\* last read the consumer was given, "got" the bytes in its buffer
\* "reqs" are the arguments of the zl_write_req_s that the remote connection
\* holds, oldest first; req_alloc and req_freed count their malloc and free;
\* wcbs counts the consumer's write callbacks, wcb is the last one
NewLink ==
    [conn |-> "none", service |-> FALSE,
     read |-> NoRet, got |-> << >>, reads |-> 0,
     reqs |-> << >>, req_alloc |-> 0, req_freed |-> 0,
     wcbs |-> 0, wcb |-> [arg |-> 0, status |-> NoRet],
     released |-> FALSE, close_cbs |-> 0]

World ==
    [br |-> br, conn |-> conn, handle |-> handle, pool |-> pool,
     fdbr |-> fdbr, crashed |-> crashed, buf |-> "null", fx |-> {},
     ret |-> NoRet, tlog |-> << >>, blen |-> 0, sent |-> << >>]

Did(w, what) == [w EXCEPT !.fx = @ \cup {what}]

\* a step of close_bridge, in the order the steps are taken
Log(w, step) == [w EXCEPT !.tlog = Append(@, step)]

----------------------------------------------------------------------------
(* Collaborators: the pool, the remote connection, the deadline.            *)

\* pool_alloc_obj inside bridge_alloc: a buffer while fewer than
\* BRIDGE_POOL_SIZE are on loan, NULL otherwise
bridge_alloc_one_short(w) ==
    IF w.pool.out < BRIDGE_POOL_SIZE - 1
    THEN [w EXCEPT !.pool.out = @ + 1, !.buf = "held",
                   !.blen = BRIDGE_MSG_SIZE,
                   !.br.input_throttle = FALSE]
    ELSE [w EXCEPT !.buf = "null", !.blen = 0]

\* bridge_alloc(h, req, b): b->len is the size of a pool object
bridge_alloc(w) ==
    IF w.pool.out < BRIDGE_POOL_SIZE
    THEN [w EXCEPT !.pool.out = @ + 1, !.buf = "held",
                   !.blen = BRIDGE_MSG_SIZE,
                   !.br.input_throttle = FALSE]
    ELSE [w EXCEPT !.buf = "null", !.blen = 0]

\* pool_return_obj(b): NULL is ignored; a buffer that is not on loan to the
\* caller any more is a double return
pool_return_obj(w) ==
    CASE w.buf = "null" -> w
      [] w.buf = "held" -> [w EXCEPT !.pool.out = @ - 1, !.buf = "returned"]
      [] OTHER -> [w EXCEPT !.pool.dbl = 1]

\* ziti_write(conn, buf, len, on_ziti_write, buf): accepted writes complete
\* later through on_ziti_write; a rejected write never calls back
ziti_write(w, len, rc) ==
    LET w1 == [Did(w, "ziti_write") EXCEPT !.sent = Append(@, len.n)]
    IN IF rc = ZITI_OK
       THEN [w1 EXCEPT !.conn.wr_pending = @ + 1, !.buf = "inwrite"]
       ELSE w1

\* a buffer the handler neither returned nor handed to a write is lost
EndHandler(w) ==
    IF w.buf = "held" THEN [w EXCEPT !.pool.leaked = @ + 1, !.buf = "null"]
    ELSE [w EXCEPT !.buf = "null"]

br_set_idle_timeout_never(w) == w

\* br_set_idle_timeout(br): ztx_set_deadline re-arms the one deadline
br_set_idle_timeout(w) ==
    IF w.br.idle_timeout > 0
    THEN [w EXCEPT !.br.idler = w.br.idle_timeout]
    ELSE w

\* uv_close(h, cb) of the input and the output handle (one handle unless
\* the bridge was made of two descriptors): the handle stops reading and is
\* closing until the loop runs cb
uv_close_in(w) ==
    IF w.handle.two
    THEN [w EXCEPT !.handle.istate = "closing", !.handle.reading = FALSE]
    ELSE [w EXCEPT !.handle.istate = "closing", !.handle.ostate = "closing",
                   !.handle.reading = FALSE]

uv_close_out(w) ==
    IF w.handle.two
    THEN [w EXCEPT !.handle.ostate = "closing"]
    ELSE uv_close_in(w)

\* fdbr->close_cb(fdbr->ctx) if set, then free(fdbr)
fd_notify_and_free(w) ==
    LET w1 == IF w.fdbr.cb
              THEN [Did(w, "fd_close_cb") EXCEPT
                      !.fdbr.notified = @ + 1,
                      !.fdbr.at_in = w.handle.istate,
                      !.fdbr.at_out = w.handle.ostate]
              ELSE w
    IN [w1 EXCEPT !.fdbr.state = "freed"]

\* on_sock_close(h): h->data is the fd_bridge_s again
on_sock_close(w) ==
    uv_close_in(IF w.handle.data = "fdbr" THEN fd_notify_and_free(w) ELSE w)

\* on_pipes_close(h): h->data is the session
on_pipes_close(w) ==
    LET w1 == uv_close_out(uv_close_in(w))
    IN IF w1.br.fdbr THEN fd_notify_and_free(w1) ELSE w1

\* br->close_cb(br->input): on_sock_close, on_pipes_close or the embedder's
\* callback, which closes the handle it is given
call_close_cb(w) ==
    CASE w.br.close_cb = "on_sock_close" -> on_sock_close(w)
      [] w.br.close_cb = "on_pipes_close" -> on_pipes_close(w)
      [] OTHER -> uv_close_in(w)

close_bridge_remote_first(w) ==
    IF w.br.state = "none" \/ w.br.closed THEN w
    ELSE LET w1 == [Log(Did(w, "teardown"), "closed") EXCEPT !.br.closed = TRUE]
             w2 == [Log(Did(w1, "ziti_close"), "ziti_close")
                      EXCEPT !.conn.close_reqs = @ + 1]
         IN IF w2.br.input
            THEN [call_close_cb([Log(Did(w2, "close_cb"), "close_local") EXCEPT
                                   !.handle.data = w2.br.data,
                                   !.handle.closes = @ + 1])
                    EXCEPT !.br.input = FALSE]
            ELSE w2

\* close_bridge(br)
close_bridge(w) ==
    IF w.br.state = "none" \/ w.br.closed THEN w
    ELSE LET w1 == [Log(Did(w, "teardown"), "closed") EXCEPT !.br.closed = TRUE]
             w2 == IF w1.br.input
                   THEN [call_close_cb([Log(Did(w1, "close_cb"), "close_local") EXCEPT
                                          !.handle.data = w1.br.data,
                                          !.handle.closes = @ + 1])
                           EXCEPT !.br.input = FALSE]
                   ELSE w1
         IN [Log(Did(w2, "ziti_close"), "ziti_close")
               EXCEPT !.conn.close_reqs = @ + 1]

uv_read_stop(w) ==
    [Did(w, "read_stop") EXCEPT !.handle.reading = FALSE]

\* uv_read_start / uv_udp_recv_start with result rc
uv_read_start(w, rc) ==
    IF rc = ZITI_OK
    THEN [Did(w, "read_start") EXCEPT !.handle.reading = TRUE]
    ELSE Did(w, "read_start")

----------------------------------------------------------------------------
(* The callbacks of the bridge.                                             *)

on_input_nobufs_closes(w) == close_bridge(w)

\* on_input / on_udp_input, len == UV_ENOBUFS
on_input_nobufs(w) ==
    IF ~w.br.input_throttle
    THEN uv_read_stop([w EXCEPT !.br.input_throttle = TRUE])
    ELSE w

on_input_eof_closes(w) ==
    close_bridge([w EXCEPT !.br.input_eof = TRUE])

\* on_input, len == UV_EOF
on_input_eof(w) ==
    LET w2 == [w EXCEPT !.br.input_eof = TRUE]
    IN IF w2.br.ziti_eof
       THEN close_bridge(w2)
       ELSE [Did(w2, "ziti_close_write") EXCEPT !.conn.close_wr = 1]

\* on_input(s, len, b); wrc is what ziti_write returns if it is called
on_input(w, len, wrc) ==
    LET w0 == br_set_idle_timeout(w) IN
    IF IsPos(len)
    THEN LET w1 == ziti_write(w0, len, wrc)
         IN IF wrc # ZITI_OK THEN close_bridge(w1) ELSE w1
    ELSE LET w1 == pool_return_obj(w0) IN
         CASE len = UV_ENOBUFS -> on_input_nobufs(w1)
           [] len = UV_EOF -> on_input_eof(w1)
           [] IsNeg(len) /\ len # UV_ENOBUFS /\ len # UV_EOF -> close_bridge(w1)
           [] OTHER -> w1

\* on_udp_input(udp, len, b, addr, flags)
on_udp_input(w, len, wrc) ==
    LET w0 == br_set_idle_timeout(w) IN
    IF IsPos(len)
    THEN LET w1 == ziti_write(w0, len, wrc)
         IN IF wrc # ZITI_OK THEN close_bridge(w1) ELSE w1
    ELSE LET w1 == pool_return_obj(w0) IN
         CASE len = UV_ENOBUFS -> on_input_nobufs(w1)
           [] IsNeg(len) /\ len # UV_ENOBUFS -> close_bridge(w1)
           [] OTHER -> w1

on_ziti_write_any_status(w, status, rrc) ==
    LET w0 == pool_return_obj(w) IN
    IF w0.br.input /\ w0.br.input_throttle
    THEN LET w1 == uv_read_start([w0 EXCEPT !.br.input_throttle = FALSE], rrc)
         IN IF rrc # ZITI_OK THEN close_bridge(w1) ELSE w1
    ELSE IF IsNeg(status) THEN close_bridge(w0) ELSE w0

on_ziti_write_keeps_throttle(w, status, rrc) ==
    LET w0 == pool_return_obj(w) IN
    IF IsNeg(status) THEN close_bridge(w0)
    ELSE IF w0.br.input /\ w0.br.input_throttle
         THEN LET w1 == uv_read_start(w0, rrc)
              IN IF rrc # ZITI_OK THEN close_bridge(w1) ELSE w1
         ELSE w0

\* on_ziti_write(conn, status, ctx); rrc is what uv_read_start returns if it
\* is called
on_ziti_write(w, status, rrc) ==
    LET w0 == pool_return_obj(w) IN
    IF IsNeg(status) THEN close_bridge(w0)
    ELSE IF w0.br.input /\ w0.br.input_throttle
         THEN LET w1 == uv_read_start([w0 EXCEPT !.br.input_throttle = FALSE], rrc)
              IN IF rrc # ZITI_OK THEN close_bridge(w1) ELSE w1
         ELSE w0

on_ziti_data_bytes_all_consumed(w, len, wres) ==
    LET w1 == Did(w, "try_write") IN
    CASE wres.k = "len" -> [w1 EXCEPT !.ret = wres]
      [] wres = UV_EAGAIN -> [w1 EXCEPT !.ret = len]
      [] OTHER -> [close_bridge(w1) EXCEPT !.ret = wres]

\* on_ziti_data, len > 0: wres is what uv_try_write / uv_udp_try_send returns
on_ziti_data_bytes(w, len, wres) ==
    LET w1 == Did(w, "try_write") IN
    CASE wres.k = "len" -> [w1 EXCEPT !.ret = wres]
      [] wres = UV_EAGAIN -> [w1 EXCEPT !.ret = Bytes(0)]
      [] OTHER -> [close_bridge(w1) EXCEPT !.ret = wres]

on_ziti_data_eof_half_close_only(w, src) ==
    LET w1 == [w EXCEPT !.br.ziti_eof = TRUE, !.ret = Bytes(0)] IN
    IF ~w1.br.input THEN [w1 EXCEPT !.crashed = TRUE]
    ELSE IF w1.handle.type = "UV_UDP" THEN close_bridge(w1)
    ELSE LET w2 == Did(w1, "uv_shutdown") IN
         IF src # ZITI_OK THEN close_bridge(w2)
         ELSE [w2 EXCEPT !.handle.shut_pending = @ + 1]

on_ziti_data_eof_always_closes(w, src) ==
    close_bridge([w EXCEPT !.br.ziti_eof = TRUE, !.ret = Bytes(0)])

\* on_ziti_data, len == ZITI_EOF: src is what uv_shutdown returns; reading
\* br->input->type after close_bridge cleared br->input dereferences NULL
on_ziti_data_eof(w, src) ==
    LET w1 == [w EXCEPT !.br.ziti_eof = TRUE, !.ret = Bytes(0)] IN
    IF w1.br.input_eof THEN close_bridge(w1)
    ELSE IF ~w1.br.input THEN [w1 EXCEPT !.crashed = TRUE]
    ELSE IF w1.handle.type = "UV_UDP" THEN close_bridge(w1)
    ELSE LET w2 == Did(w1, "uv_shutdown") IN
         IF src # ZITI_OK THEN close_bridge(w2)
         ELSE [w2 EXCEPT !.handle.shut_pending = @ + 1]

\* on_ziti_data(conn, data, len)
on_ziti_data(w, len, wres, src) ==
    IF ~w.conn.data
    THEN [Did(w, "ziti_close") EXCEPT !.conn.close_reqs = @ + 1, !.ret = ZITI_ERR]
    ELSE
    LET w0 == br_set_idle_timeout(w) IN
    IF IsPos(len) THEN on_ziti_data_bytes(w0, len, wres)
    ELSE IF len = ZITI_EOF THEN on_ziti_data_eof(w0, src)
    ELSE [close_bridge(w0) EXCEPT !.ret = Bytes(0)]

on_shutdown_any_nonzero(w, status) ==
    LET w0 == [w EXCEPT !.handle.shut_pending = @ - 1] IN
    IF status # ZITI_OK
    THEN IF w0.handle.two \/ w0.handle.data = "br" THEN close_bridge(w0)
         ELSE [w0 EXCEPT !.crashed = TRUE]
    ELSE w0

\* on_shutdown(sr, status): sr->handle->data is the session only while the
\* handle has not been handed back to the embedder
on_shutdown(w, status) ==
    LET w0 == [w EXCEPT !.handle.shut_pending = @ - 1] IN
    IF status # ZITI_OK /\ status # UV_ECANCELED
    THEN IF w0.handle.two \/ w0.handle.data = "br" THEN close_bridge(w0)
         ELSE [w0 EXCEPT !.crashed = TRUE]
    ELSE w0

\* on_ziti_close(conn): pool_destroy, free(br)
on_ziti_close(w) ==
    [Did(w, "free") EXCEPT !.pool.exists = FALSE, !.br.state = "freed"]

\* on_bridge_idle(v) on a live session record
on_bridge_idle(w) == close_bridge([w EXCEPT !.br.idler = -1])

\* ziti_conn_bridge_idle_timeout(conn, millis)
ziti_conn_bridge_idle_timeout(w, millis) ==
    IF millis = 0
    THEN [w EXCEPT !.br.idle_timeout = 0, !.ret = Bytes(0)]
    ELSE [br_set_idle_timeout([w EXCEPT !.br.idle_timeout = millis])
            EXCEPT !.ret = Bytes(0)]

bridge_args_ok_any_udp(conn_ok, h, peer) ==
    /\ h # "NULL" /\ conn_ok
    /\ h \in {"UV_TCP", "UV_NAMED_PIPE", "UV_TTY", "UV_UDP"}

\* the argument checks of ziti_conn_bridge
bridge_args_ok(conn_ok, h, peer) ==
    /\ h # "NULL" /\ conn_ok
    /\ h \in {"UV_TCP", "UV_NAMED_PIPE", "UV_TTY", "UV_UDP"}
    /\ h = "UV_UDP" => peer

\* ziti_conn_bridge(conn, handle, on_close): h is "NULL" or the handle's
\* type, peer whether a UDP handle is connected, crc the result of
\* ziti_conn_set_data_cb, rrc the result of starting the read
ziti_conn_bridge(w, conn_ok, h, on_close, peer, crc, rrc) ==
    IF ~bridge_args_ok(conn_ok, h, peer) THEN [w EXCEPT !.ret = UV_EINVAL]
    ELSE IF crc # ZITI_OK THEN [w EXCEPT !.ret = UV_ECONNRESET]
    ELSE
    LET w1 == [w EXCEPT
                 !.conn.data_cb = TRUE,
                 !.br = [NoBridge EXCEPT !.state = "live", !.input = TRUE,
                                         !.close_cb = on_close,
                                         !.data = w.handle.data],
                 !.pool = [NoPool EXCEPT !.exists = TRUE],
                 !.handle.type = h,
                 !.handle.istate = "open",
                 !.handle.ostate = "open",
                 !.handle.data = "br",
                 !.conn.data = TRUE,
                 !.conn.bridged = TRUE]
        w2 == uv_read_start(w1, rrc)
    IN IF rrc # ZITI_OK
       THEN [close_bridge(w2) EXCEPT !.ret = UV_ECONNABORTED]
       ELSE [w2 EXCEPT !.ret = ZITI_OK]

\* ziti_conn_bridge_fds(conn, input, output, close_cb, ctx): same is
\* input == output, socktype what getsockopt(SO_TYPE) reports, cb whether a
\* close notification is given
ziti_conn_bridge_fds(w, conn_ok, same, socktype, cb, peer, crc, rrc) ==
    IF ~conn_ok THEN [w EXCEPT !.ret = UV_EINVAL]
    ELSE
    LET w0 == [w EXCEPT !.fdbr = [NoFdBridge EXCEPT !.state = "live", !.cb = cb]] IN
    IF same
    THEN IF socktype \notin {"SOCK_STREAM", "SOCK_DGRAM"}
         THEN [w0 EXCEPT !.ret = UV_EINVAL]
         ELSE ziti_conn_bridge([w0 EXCEPT !.handle.data = "fdbr"], TRUE,
                               IF socktype = "SOCK_STREAM" THEN "UV_TCP" ELSE "UV_UDP",
                               "on_sock_close", peer, crc, rrc)
    ELSE
    LET w1 == [w0 EXCEPT
                 !.br = [NoBridge EXCEPT !.state = "live", !.input = TRUE,
                                         !.close_cb = "on_pipes_close",
                                         !.data = "br", !.fdbr = TRUE],
                 !.pool = [NoPool EXCEPT !.exists = TRUE],
                 !.handle.type = "UV_NAMED_PIPE",
                 !.handle.two = TRUE,
                 !.handle.istate = "open",
                 !.handle.ostate = "open",
                 !.handle.data = "br",
                 !.conn.data = TRUE,
                 !.conn.bridged = TRUE,
                 !.conn.data_cb = (crc = ZITI_OK)]
        w2 == uv_read_start(w1, rrc)
    IN IF rrc # ZITI_OK
       THEN [close_bridge(w2) EXCEPT !.ret = ZITI_OK]
       ELSE [w2 EXCEPT !.ret = ZITI_OK]

----------------------------------------------------------------------------
(* The state machine.                                                       *)

Init ==
    /\ br = NoBridge
    /\ conn = NewConn
    /\ handle = NewHandle
    /\ pool = NoPool
    /\ crashed = FALSE
    /\ ev = [kind |-> "init"]
    /\ fx = {}
    /\ ret = NoRet
    /\ since = 0
    /\ hist = NoHist
    /\ zl = NewLink
    /\ fdbr = NoFdBridge
    /\ sent = << >>

\* the objects after a handler that ended in world w, e the event handled,
\* h the history after it
Commit(w, e, h) ==
    /\ br' = w.br
    /\ conn' = w.conn
    /\ handle' = w.handle
    /\ fdbr' = w.fdbr
    /\ sent' = w.sent
    /\ pool' = w.pool
    /\ crashed' = w.crashed
    /\ fx' = w.fx
    /\ ret' = w.ret
    /\ ev' = e
    /\ hist' = [h EXCEPT !.teardowns = @ + (IF "teardown" \in w.fx THEN 1 ELSE 0),
                         !.tlog = IF w.tlog # << >> THEN w.tlog ELSE @]
    /\ zl' = zl

Live == ~crashed /\ br.state = "live"

MaxRead == 40960

\* what a read into a buffer of blen bytes reports: as many bytes as there
\* are to read and fit (none, a few, or MaxRead), EOF or an error
ReadLens(blen) ==
    {Bytes(Min(n, blen)) : n \in (0..(MaxLen - 1)) \cup {MaxRead}}
        \cup {UV_EOF, UV_EPIPE}

\* one read of the local handle by the loop: bridge_alloc, then the read
\* callback with the result; the loop stops reading a stream after EOF or
\* an error
UvRead ==
    /\ Live
    /\ handle.reading
    /\ LET wa == bridge_alloc(World) IN
       \E len \in (IF wa.buf = "null" THEN {UV_ENOBUFS} ELSE ReadLens(wa.blen)),
          wrc \in {ZITI_OK, ZITI_INVALID_STATE} :
          /\ ~IsPos(len) => wrc = ZITI_OK
          /\ LET w1 == IF handle.type = "UV_UDP"
                       THEN on_udp_input(wa, len, wrc)
                       ELSE on_input(wa, len, wrc)
                 w2 == EndHandler(w1)
                 w3 == IF len \in {UV_EOF, UV_EPIPE}
                       THEN [w2 EXCEPT !.handle.reading = FALSE]
                       ELSE w2
             IN Commit(w3, [kind |-> "read", len |-> len, rc |-> wrc],
                       [hist EXCEPT
                          !.leof = @ \/ len = UV_EOF,
                          !.err = @ \/ len = UV_EPIPE
                                    \/ (IsPos(len) /\ wrc # ZITI_OK)])
    /\ since' = 0

DataLens == {Bytes(n) : n \in 1..MaxLen} \cup {ZITI_EOF, ZITI_CONN_CLOSED, ZITI_ERR}

WriteResults(len) ==
    IF IsPos(len)
    THEN {Bytes(n) : n \in 0..len.n} \cup {UV_EAGAIN, UV_EPIPE}
    ELSE {ZITI_OK}

\* the remote connection pushes data, EOF or an error; nothing but a close
\* notice or an error follows EOF
RemoteData ==
    /\ Live
    /\ conn.data_cb
    /\ \E len \in DataLens, src \in {ZITI_OK, UV_EPIPE} :
       \E wres \in WriteResults(len) :
          /\ hist.reof => len \in {ZITI_CONN_CLOSED, ZITI_ERR}
          /\ len # ZITI_EOF => src = ZITI_OK
          /\ LET w1 == EndHandler(on_ziti_data(World, len, wres, src))
             IN /\ ("uv_shutdown" \notin w1.fx) => src = ZITI_OK
                /\ Commit(w1, [kind |-> "data", len |-> len, rc |-> wres, src |-> src],
                          [hist EXCEPT
                             !.reof = @ \/ len = ZITI_EOF,
                             !.err = @ \/ len \in {ZITI_CONN_CLOSED, ZITI_ERR}
                                       \/ (IsPos(len) /\ wres = UV_EPIPE)
                                       \/ src # ZITI_OK])
    /\ since' = 0

\* a remote write completes: on_ziti_write with the buffer as context
WriteDone ==
    /\ Live
    /\ conn.wr_pending > 0
    /\ \E status \in {ZITI_OK, ZITI_CONN_CLOSED}, rrc \in {ZITI_OK, UV_EINVAL} :
          LET w0 == [World EXCEPT !.conn.wr_pending = @ - 1, !.buf = "held"]
              w1 == EndHandler(on_ziti_write(w0, status, rrc))
          IN /\ ("read_start" \notin w1.fx) => rrc = ZITI_OK
             /\ Commit(w1, [kind |-> "write_done", len |-> status, rc |-> rrc],
                       [hist EXCEPT !.err = @ \/ IsNeg(status) \/ rrc # ZITI_OK])
    /\ since' = since

\* a half-close of the local handle completes; on a closed handle the loop
\* reports UV_ECANCELED
ShutdownDone ==
    /\ ~crashed
    /\ br.state \in {"live", "freed"}
    /\ handle.shut_pending > 0
    /\ \E status \in (IF handle.closes > 0 THEN {UV_ECANCELED}
                      ELSE {ZITI_OK, UV_EPIPE}) :
          LET w1 == EndHandler(on_shutdown(World, status))
          IN Commit(w1, [kind |-> "shutdown_done", len |-> status],
                    [hist EXCEPT !.err = @ \/ status = UV_EPIPE])
    /\ since' = since

\* the remote connection finishes closing once its writes have completed
ZitiClosed ==
    /\ Live
    /\ conn.close_reqs > 0
    /\ conn.wr_pending = 0
    /\ Commit(EndHandler(on_ziti_close(World)), [kind |-> "ziti_closed"], hist)
    /\ since' = since

\* the embedder sets or clears the idle timeout of a connection whose
\* bridge is active
SetIdleTimeout ==
    /\ Live
    /\ conn.data
    /\ ~br.closed
    /\ \E millis \in 0..MaxTimeout :
          Commit(EndHandler(ziti_conn_bridge_idle_timeout(World, millis)),
                 [kind |-> "set_timeout", len |-> Bytes(millis)], hist)
    /\ since' = 0

\* time passes; an expired deadline fires before time passes again
Tick ==
    /\ ~crashed
    /\ br.state # "none"
    /\ br.idler # 0
    /\ br.state = "freed" => br.idler > 0
    /\ since < MaxTimeout + 1 \/ br.idler > 0
    /\ br' = [br EXCEPT !.idler = IF @ > 0 THEN @ - 1 ELSE @]
    /\ since' = IF since < MaxTimeout + 1 THEN since + 1 ELSE since
    /\ ev' = [kind |-> "tick"]
    /\ fx' = {}
    /\ ret' = NoRet
    /\ sent' = << >>
    /\ UNCHANGED <<conn, handle, pool, crashed, hist, zl, fdbr>>

\* the idle deadline expires on a live session record
IdleExpired ==
    /\ Live
    /\ br.idler = 0
    /\ Commit(EndHandler(on_bridge_idle(World)), [kind |-> "idle"],
              [hist EXCEPT !.idle = TRUE, !.idleT = br.idle_timeout])
    /\ since' = since

\* the idle deadline expires after on_ziti_close released the record: the
\* fields close_bridge reads are whatever the freed memory holds
IdleExpiredFreed ==
    /\ ~crashed
    /\ br.state = "freed"
    /\ br.idler = 0
    /\ \E rd_closed \in BOOLEAN, rd_input \in BOOLEAN :
          /\ rd_closed => ~rd_input
          /\ LET w0 == [World EXCEPT !.br.closed = rd_closed, !.br.input = rd_input]
             IN Commit(EndHandler(on_bridge_idle(w0)),
                       [kind |-> "idle_dangling"], hist)
    /\ since' = since

\* the handles the embedder passes: none, a stream, a UDP socket, and a
\* handle of a type the bridge does not support
AttachHandles == {"NULL", "UV_TCP", "UV_UDP", "UV_TIMER"}

\* the embedder attaches a bridge to a handle of its own (the handle the
\* descriptor entry point made is never handed to it)
Attach ==
    /\ ~crashed
    /\ br.state = "none"
    /\ fdbr.state = "none"
    /\ \E conn_ok \in BOOLEAN, h \in AttachHandles, peer \in BOOLEAN,
          crc \in {ZITI_OK, ZITI_INVALID_STATE}, rrc \in {ZITI_OK, UV_EINVAL} :
          /\ h # "UV_UDP" => peer
          /\ LET w1 == EndHandler(ziti_conn_bridge(World, conn_ok, h, "on_close",
                                                   peer, crc, rrc))
             IN /\ w1.ret \in {UV_EINVAL, UV_ECONNRESET} => rrc = ZITI_OK
                /\ w1.ret = UV_EINVAL => crc = ZITI_OK
                /\ Commit(w1, [kind |-> "attach", conn_ok |-> conn_ok, h |-> h,
                               peer |-> peer, crc |-> crc, rrc |-> rrc],
                          [hist EXCEPT !.err = @ \/ w1.ret = UV_ECONNABORTED])
    /\ since' = 0

SockTypes == {"SOCK_STREAM", "SOCK_DGRAM", "SOCK_RAW"}

\* the embedder attaches a bridge to one or two descriptors
AttachFds ==
    /\ ~crashed
    /\ br.state = "none"
    /\ fdbr.state = "none"
    /\ \E conn_ok \in BOOLEAN, same \in BOOLEAN, socktype \in SockTypes,
          cb \in BOOLEAN, peer \in BOOLEAN,
          crc \in {ZITI_OK, ZITI_INVALID_STATE}, rrc \in {ZITI_OK, UV_EINVAL} :
          /\ ~same => socktype = "SOCK_STREAM"
          /\ ~(same /\ socktype = "SOCK_DGRAM") => peer
          /\ ~conn_ok => (same /\ socktype = "SOCK_STREAM")
          \* sessions that live on are the two-descriptor ones with a close
          \* notification; a one-socket session lives as Attach's do
          /\ (same \/ ~cb) => (~conn_ok \/ ~peer \/ rrc # ZITI_OK \/ crc # ZITI_OK
                                \/ socktype = "SOCK_RAW")
          /\ LET w1 == EndHandler(ziti_conn_bridge_fds(World, conn_ok, same, socktype,
                                                       cb, peer, crc, rrc))
             IN /\ w1.br.state = "none" => rrc = ZITI_OK
                /\ w1.ret = UV_EINVAL => crc = ZITI_OK
                /\ Commit(w1, [kind |-> "attach_fds", conn_ok |-> conn_ok,
                               same |-> same, socktype |-> socktype, cb |-> cb,
                               peer |-> peer, crc |-> crc, rrc |-> rrc],
                          [hist EXCEPT !.err = @ \/ "teardown" \in w1.fx])
    /\ since' = 0

\* the loop's closing phase finishes every handle uv_close was called on and
\* runs its close callback (free); handles closed in one callback are
\* finished in the same phase
HandleClosed ==
    /\ ~crashed
    /\ handle.istate = "closing" \/ handle.ostate = "closing"
    /\ handle' = [handle EXCEPT
                    !.istate = IF @ = "closing" THEN "closed" ELSE @,
                    !.ostate = IF @ = "closing" THEN "closed" ELSE @]
    /\ ev' = [kind |-> "handle_closed"]
    /\ fx' = {}
    /\ ret' = NoRet
    /\ sent' = << >>
    /\ UNCHANGED <<br, conn, pool, crashed, since, hist, zl, fdbr>>

Next ==
    \/ Attach
    \/ AttachFds
    \/ HandleClosed
    \/ UvRead
    \/ RemoteData
    \/ WriteDone
    \/ ShutdownDone
    \/ ZitiClosed
    \/ SetIdleTimeout
    \/ Tick
    \/ IdleExpired
    \/ IdleExpiredFreed

Spec == Init /\ [][Next]_vars

\* the traffic of a session with no idle timeout
NextFlow ==
    \/ Attach
    \/ AttachFds
    \/ UvRead
    \/ RemoteData
    \/ WriteDone
    \/ ShutdownDone
    \/ ZitiClosed
    \/ HandleClosed

\* every remote write that was accepted completes
SpecFlow == Init /\ [][NextFlow]_vars /\ WF_vars(WriteDone)

----------------------------------------------------------------------------
(* The stream-link adapter (ziti_src.c).                                    *)

\* largest remote delivery to the link, largest consumer buffer
MaxData == 4
MaxCap == 3

\* uv_link_propagate_read_cb(link, nread, buf)
propagate_read(z, nread, bytes) ==
    [z EXCEPT !.read = nread, !.got = bytes, !.reads = 1]

zlnf_data_cb_untruncated(z, data, length, cap, base) ==
    IF length = ZITI_EOF
    THEN <<propagate_read(z, UV_EOF, << >>), length>>
    ELSE IF IsNeg(length)
    THEN <<propagate_read(z, length, << >>), length>>
    ELSE IF cap = 0 \/ ~base
    THEN <<z, Bytes(0)>>
    ELSE LET n == IF length.n > cap THEN cap ELSE length.n
         IN <<propagate_read(z, Bytes(n), SubSeq(data, 1, n)), length>>

\* zlnf_data_cb(conn, data, length): data are the bytes delivered (length of
\* them when length >= 0), cap and base the buffer the consumer's alloc
\* callback offers.  The result is <<link, value returned>>.
zlnf_data_cb(z, data, length, cap, base) ==
    IF length = ZITI_EOF
    THEN <<propagate_read(z, UV_EOF, << >>), length>>
    ELSE IF IsNeg(length)
    THEN <<propagate_read(z, length, << >>), length>>
    ELSE IF cap = 0 \/ ~base
    THEN <<z, Bytes(0)>>
    ELSE LET n == IF length.n > cap THEN cap ELSE length.n
         IN <<propagate_read(z, Bytes(n), SubSeq(data, 1, n)), Bytes(n)>>

\* ziti_src_connect(src, host, port, cb, ctx): found is whether a service
\* intercepts the address, irc and drc the results of ziti_conn_init and
\* ziti_dial_with_options
ziti_src_connect(z, found, irc, drc) ==
    IF ~z.service /\ ~found THEN <<z, Code("ZITI_SERVICE_UNAVAILABLE")>>
    ELSE LET z1 == [z EXCEPT !.service = TRUE] IN
         IF irc # ZITI_OK THEN <<z1, irc>>
         ELSE IF drc # ZITI_OK THEN <<[z1 EXCEPT !.conn = "init"], drc>>
         ELSE <<[z1 EXCEPT !.conn = "dialing"], ZITI_OK>>

\* zlnf_conn_cb(conn, status): the dial completed
zlnf_conn_cb(z, status) ==
    [z EXCEPT !.conn = IF status = ZITI_OK THEN "connected" ELSE "failed"]

\* zl_write(link, source, bufs, nbufs, send_handle, cb, arg): rc is what
\* ziti_write returns; an accepted write keeps the request until it
\* completes, a rejected one never calls back
zl_write(z, arg, rc) ==
    LET z1 == [z EXCEPT !.req_alloc = @ + 1]
    IN IF rc = ZITI_OK
       THEN <<[z1 EXCEPT !.reqs = Append(@, arg)], rc>>
       ELSE <<z1, rc>>

\* zlnf_write_cb(conn, status, ctx): ctx is the oldest request
zlnf_write_cb(z, status) ==
    [z EXCEPT !.wcbs = @ + 1,
              !.wcb = [arg |-> Head(z.reqs), status |-> status],
              !.req_freed = @ + 1,
              !.reqs = Tail(@)]

\* zl_close(link, source, link_close_cb)
zl_close(z) ==
    [z EXCEPT !.conn = "closed", !.close_cbs = @ + 1]

\* ziti_src_release(src)
ziti_src_release(z) ==
    [z EXCEPT !.service = FALSE, !.released = TRUE]

LinkQuiet ==
    UNCHANGED <<br, conn, handle, pool, crashed, fx, since, hist, fdbr, sent>>

LinkInit ==
    /\ zl.conn = "none"
    /\ ~zl.service
    /\ \E svc \in BOOLEAN :
          zl' = [NewLink EXCEPT !.service = svc, !.conn = "ready"]
    /\ ev' = [kind |-> "src_init"]
    /\ ret' = Bytes(0)
    /\ LinkQuiet

LinkConnect ==
    /\ zl.conn = "ready"
    /\ \E found \in BOOLEAN, irc \in {ZITI_OK, ZITI_INVALID_STATE},
          drc \in {ZITI_OK, ZITI_INVALID_STATE} :
          LET r == ziti_src_connect(zl, found, irc, drc)
          IN /\ zl' = r[1]
             /\ ret' = r[2]
             /\ ev' = [kind |-> "src_connect", found |-> found, irc |-> irc,
                       drc |-> drc]
    /\ LinkQuiet

LinkConnected ==
    /\ zl.conn = "dialing"
    /\ \E status \in {ZITI_OK, ZITI_ERR} :
          /\ zl' = zlnf_conn_cb(zl, status)
          /\ ev' = [kind |-> "conn_cb", len |-> status]
    /\ ret' = NoRet
    /\ LinkQuiet

MaxWrites == 2

WriteArgs == {1, 2}

\* the consumer writes through the link
LinkWrite ==
    /\ zl.conn \in {"connected", "closed"}
    /\ ~zl.released
    /\ zl.req_alloc < MaxWrites
    /\ \E arg \in WriteArgs, rc \in {ZITI_OK, ZITI_INVALID_STATE} :
          /\ zl.conn = "closed" => rc # ZITI_OK
          /\ LET r == zl_write(zl, arg, rc)
             IN /\ zl' = r[1]
                /\ ret' = r[2]
                /\ ev' = [kind |-> "link_write", arg |-> arg, rc |-> rc]
    /\ LinkQuiet

\* the remote connection completes the oldest accepted write
LinkWriteDone ==
    /\ zl.reqs # << >>
    /\ \E status \in {Bytes(1), ZITI_CONN_CLOSED} :
          /\ zl.conn = "closed" => status = ZITI_CONN_CLOSED
          /\ zl' = zlnf_write_cb(zl, status)
          /\ ev' = [kind |-> "link_write_done", arg |-> Head(zl.reqs),
                    len |-> status]
    /\ ret' = NoRet
    /\ LinkQuiet

\* the consumer closes the link
LinkClose ==
    /\ zl.conn = "connected"
    /\ ~zl.released
    /\ zl' = zl_close(zl)
    /\ ev' = [kind |-> "link_close"]
    /\ ret' = NoRet
    /\ LinkQuiet

\* the consumer releases the source
LinkRelease ==
    /\ zl.conn # "none"
    /\ ~zl.released
    /\ zl' = ziti_src_release(zl)
    /\ ev' = [kind |-> "src_release"]
    /\ ret' = NoRet
    /\ LinkQuiet

Payloads == UNION {[1..n -> {0, 1}] : n \in 1..MaxData}

\* the remote connection delivers data, EOF or an error to the link
LinkData ==
    /\ zl.conn = "connected"
    /\ ~zl.released
    /\ \E cap \in 0..MaxCap, base \in BOOLEAN :
       \E data \in Payloads \cup {<< >>} :
       \E length \in (IF data = << >> THEN {ZITI_EOF, ZITI_ERR}
                      ELSE {Bytes(Len(data))}) :
          /\ ~base => cap = 0
          /\ IsNeg(length) => cap = 0 /\ ~base
          /\ LET r == zlnf_data_cb([zl EXCEPT !.reads = 0, !.read = NoRet,
                                              !.got = << >>],
                                   data, length, cap, base)
             IN /\ zl' = r[1]
                /\ ret' = r[2]
                /\ ev' = [kind |-> "link_data", data |-> data, len |-> length,
                          cap |-> cap, base |-> base]
    /\ LinkQuiet

NextLink ==
    \/ LinkInit
    \/ LinkConnect
    \/ LinkConnected
    \/ LinkData
    \/ LinkWrite
    \/ LinkWriteDone
    \/ LinkClose
    \/ LinkRelease

SpecLink == Init /\ [][NextLink]_vars

----------------------------------------------------------------------------
(* Properties of the bridge (checked under Spec).                           *)

\* C1: teardown takes effect at most once on a session, whatever the order
\* of read, data, write-completion, half-close-completion and idle-expiry
\* events: closed goes false->true once, the local close callback runs at
\* most once and the remote close is requested at most once.
C1_TeardownAtMostOnce ==
    /\ hist.teardowns <= 1
    /\ handle.closes <= 1
    /\ conn.close_reqs <= 1

\* C2: every buffer bridge_alloc hands out goes back to the pool exactly
\* once: none is dropped without a return and none is returned twice.
C2_BufferReturnedExactlyOnce ==
    /\ pool.leaked = 0
    /\ pool.dbl = 0

TeardownCause ==
    \/ hist.leof /\ hist.reof
    \/ hist.err
    \/ hist.idle
    \/ handle.type = "UV_UDP" /\ (hist.leof \/ hist.reof)

\* C3: a session is torn down if and only if both directions reached EOF,
\* or a transport error occurred, or the idle deadline expired, or the local
\* endpoint is connectionless and one side reached EOF; a stream session
\* with one EOF and no error or expiry stays open.
C3_TeardownIffCause ==
    br.state = "live" => (br.closed <=> TeardownCause)

C3_Witness ==
    /\ br.state = "live"
    /\ ~br.closed
    /\ handle.type \in StreamTypes
    /\ hist.reof /\ ~hist.leof
    /\ handle.shut_pending = 0
    /\ conn.wr_pending > 0

\* C4: local EOF on a stream endpoint before remote EOF sets localEOF,
\* half-closes the remote connection's write side and leaves the session
\* open; remote EOF after that tears the session down.
C4_LocalEofThenRemoteEof ==
    [][ /\ ( /\ ev'.kind = "read" /\ ev'.len = UV_EOF
             /\ handle.type \in StreamTypes
             /\ ~br.ziti_eof /\ ~br.closed )
           => ( /\ br'.input_eof
                /\ "ziti_close_write" \in fx'
                /\ conn'.close_wr = 1
                /\ ~br'.closed
                /\ "teardown" \notin fx' )
        /\ ( /\ ev'.kind = "data" /\ ev'.len = ZITI_EOF
             /\ br.input_eof /\ ~br.closed )
           => ( br'.closed /\ "teardown" \in fx' /\ "uv_shutdown" \notin fx' )
      ]_vars

C4_Witness ==
    /\ ev.kind = "data" /\ ev.len = ZITI_EOF
    /\ handle.type \in StreamTypes
    /\ hist.leof /\ conn.close_wr = 1
    /\ ~hist.err /\ ~hist.idle
    /\ br.closed /\ "teardown" \in fx

\* C5: local reads are stopped exactly by a read event that reports
\* UV_ENOBUFS on a session that is not throttled, and uv_read_start is called
\* again exactly by a successful write completion on a throttled session that
\* is not closed; never on a closed session, never by a failed completion.
C5_ThrottleStopAndResume ==
    [][ /\ ("read_stop" \in fx')
           <=> ( /\ ev'.kind = "read" /\ ev'.len = UV_ENOBUFS
                 /\ ~br.input_throttle )
        /\ ("read_stop" \in fx') => (br'.input_throttle /\ ~handle'.reading)
        /\ (ev'.kind \notin {"attach", "attach_fds"})
           => ( ("read_start" \in fx')
                <=> ( /\ ev'.kind = "write_done" /\ ~IsNeg(ev'.len)
                      /\ br.input_throttle /\ ~br.closed ) )
        /\ (ev'.kind \notin {"attach", "attach_fds"} /\ "read_start" \in fx')
           => ~br'.input_throttle
      ]_vars

C5_Witness ==
    /\ ev.kind = "write_done"
    /\ "read_start" \in fx
    /\ handle.reading
    /\ ~br.input_throttle
    /\ conn.wr_pending = BRIDGE_POOL_SIZE - 1

TrafficEvent(e) == e.kind \in {"read", "data"}

\* C6: with idle timeout T > 0, every read or remote-data event moves the
\* deadline to T after the event; the deadline closes the session when it
\* expires, which is never before T ticks have passed since the last event,
\* and an open session is never idle for longer than T.
C6_IdleDeadline ==
    [][ /\ (TrafficEvent(ev') /\ br.idle_timeout > 0)
           => br'.idler = br.idle_timeout
        /\ (ev'.kind = "idle" /\ br.idle_timeout > 0)
           => (since >= br.idle_timeout /\ br'.closed)
        /\ (br'.state = "live" /\ ~br'.closed /\ br'.idle_timeout > 0)
           => (since' <= br'.idle_timeout /\ br'.idler = br'.idle_timeout - since')
      ]_vars

C6_Witness ==
    /\ ev.kind = "idle"
    /\ "teardown" \in fx
    /\ br.idle_timeout = MaxTimeout
    /\ since = MaxTimeout
    /\ conn.wr_pending > 0
    /\ ~hist.err

\* C7: once the idle timeout has been set to 0 the session is never torn
\* down by idle expiry, also when an earlier deadline was still pending.
C7_ZeroDisablesIdle ==
    ~( /\ ev.kind = "idle"
       /\ "teardown" \in fx
       /\ br.idle_timeout = 0 )

Written(wres) == IF wres.k = "len" THEN wres.n ELSE 0

\* C8: for remote data of n > 0 bytes the count on_ziti_data reports as
\* consumed never exceeds what the non-blocking write wrote: the written
\* count w (0 <= w <= n) on success, 0 on would-block, and would-block does
\* not tear the session down.
C8_ConsumedAtMostWritten ==
    (ev.kind = "data" /\ IsPos(ev.len)) =>
        /\ ret.k = "len" => (ret.n <= Written(ev.rc) /\ ret.n <= ev.len.n)
        /\ ev.rc.k = "len" => ret = ev.rc
        /\ ev.rc = UV_EAGAIN => (ret = Bytes(0) /\ "teardown" \notin fx)

C8_Witness ==
    /\ ev.kind = "data"
    /\ ev.len = Bytes(MaxLen)
    /\ ev.rc = UV_EAGAIN
    /\ ret = Bytes(0)
    /\ ~br.closed

BadAttachArgs(e) ==
    \/ ~e.conn_ok
    \/ e.h = "NULL"
    \/ e.h \notin {"UV_TCP", "UV_NAMED_PIPE", "UV_TTY", "UV_UDP"}
    \/ e.h = "UV_UDP" /\ ~e.peer

\* C9: ziti_conn_bridge with a null connection, a null handle, a handle of
\* an unsupported type or an unconnected UDP handle returns UV_EINVAL and
\* creates no session: nothing is installed on the connection, the handle's
\* data pointer is unchanged and no read is started.
C9_InvalidArgumentsNoSession ==
    (ev.kind = "attach" /\ BadAttachArgs(ev)) =>
        /\ ret = UV_EINVAL
        /\ br.state = "none"
        /\ ~conn.bridged /\ ~conn.data_cb /\ ~conn.data
        /\ handle.data = "user" /\ handle.type = "none"
        /\ ~handle.reading
        /\ ~pool.exists
        /\ fx = {}

C9_Witness ==
    /\ ev.kind = "attach"
    /\ ev.conn_ok /\ ev.h = "UV_UDP" /\ ~ev.peer
    /\ ret = UV_EINVAL
    /\ br.state = "none"

----------------------------------------------------------------------------
(* Properties of the stream-link adapter (checked under SpecLink).          *)

\* C10: a delivery of n > 0 bytes to a consumer offering capacity c delivers
\* nothing and reports 0 consumed when c = 0 or there is no buffer, and
\* otherwise copies the first min(n, c) bytes, delivers them and reports
\* min(n, c) consumed.
C10_DeliverMinOfLengthAndCapacity ==
    (ev.kind = "link_data" /\ IsPos(ev.len)) =>
        IF ev.cap = 0 \/ ~ev.base
        THEN zl.reads = 0 /\ zl.got = << >> /\ ret = Bytes(0)
        ELSE /\ zl.reads = 1
             /\ zl.read = Bytes(Min(ev.len.n, ev.cap))
             /\ zl.got = SubSeq(ev.data, 1, Min(ev.len.n, ev.cap))
             /\ ret = Bytes(Min(ev.len.n, ev.cap))

C10_Witness ==
    /\ ev.kind = "link_data"
    /\ ev.len = Bytes(MaxData)
    /\ ev.cap = MaxCap /\ ev.base
    /\ MaxCap < MaxData
    /\ Len(zl.got) = MaxCap
    /\ ret = Bytes(MaxCap)


----------------------------------------------------------------------------
(* Properties of a bridge made of descriptors (checked under Spec).         *)

\* C11: for a bridge made by ziti_conn_bridge_fds of two different
\* descriptors with a close notification, teardown closes both the input and
\* the output handle and invokes the notification exactly once, and only
\* after the close of both handles has completed.
C11_NotifiedOnceAfterBothClosed ==
    (handle.two /\ fdbr.cb) =>
        /\ br.closed => ( /\ handle.istate \in {"closing", "closed"}
                          /\ handle.ostate \in {"closing", "closed"}
                          /\ fdbr.notified >= 1 )
        /\ fdbr.notified <= 1
        /\ fdbr.notified >= 1 => (fdbr.at_in = "closed" /\ fdbr.at_out = "closed")

\* what a read event reporting UV_ENOBUFS does to a session
NoBufsEffect(b) ==
    [b EXCEPT !.input_throttle = TRUE,
              !.idler = IF b.idle_timeout > 0 THEN b.idle_timeout ELSE @]

\* C12: a read event that reports UV_ENOBUFS never tears the session down
\* and loses nothing already read (the pool and the pending writes are as
\* before); it only re-arms the idle deadline and, if the session is not
\* throttled, sets the throttle flag and stops local reads once; on a
\* throttled session it stops nothing.
C12_NoBufsOnlyThrottles ==
    [][ /\ (ev'.kind = "read" /\ ev'.len = UV_ENOBUFS) =>
              /\ br' = NoBufsEffect(br)
              /\ ~br'.closed
              /\ pool' = pool /\ conn' = conn /\ fdbr' = fdbr
              /\ handle' = [handle EXCEPT !.reading = FALSE]
              /\ fx' = IF br.input_throttle THEN {} ELSE {"read_stop"}
        /\ (Live /\ br.input_throttle) =>
              \A udp \in BOOLEAN :
                 LET w0 == [World EXCEPT !.buf = "null"]
                     w1 == IF udp THEN on_udp_input(w0, UV_ENOBUFS, ZITI_OK)
                                  ELSE on_input(w0, UV_ENOBUFS, ZITI_OK)
                 IN /\ w1.fx = {}
                    /\ w1 = [w0 EXCEPT !.br = NoBufsEffect(br)]
      ]_vars

C12_Witness ==
    /\ ev.kind = "read" /\ ev.len = UV_ENOBUFS
    /\ fx = {"read_stop"}
    /\ br.input_throttle /\ ~handle.reading /\ ~br.closed
    /\ br.idle_timeout > 0 /\ br.idler = br.idle_timeout
    /\ pool.out = BRIDGE_POOL_SIZE
    /\ conn.wr_pending = BRIDGE_POOL_SIZE

----------------------------------------------------------------------------
(* Properties of the stream-link writes and release (checked under          *)
(* SpecLink).                                                                *)

\* C13: for every write zl_write takes, the consumer's completion callback
\* runs exactly once, with the consumer's own argument and the status of the
\* remote write, and the pending request is released exactly once, also when
\* ziti_write fails synchronously: every request allocated is either still
\* held by the remote connection or freed.
C13_WriteRequestReleasedOnce ==
    /\ zl.req_alloc = Len(zl.reqs) + zl.req_freed
    /\ zl.wcbs = zl.req_freed
    /\ ev.kind = "link_write_done" =>
          zl.wcb = [arg |-> ev.arg, status |-> ev.len]

\* C14: once ziti_src_release has run on a node whose remote connection was
\* established, no remote connection of the node remains open.
C14_ReleaseClosesConnection ==
    zl.released => zl.conn # "connected"

----------------------------------------------------------------------------
(* Properties of the half-close and of the teardown sequence (checked       *)
(* under Spec).                                                              *)

\* C15: remote EOF on a session that is not closed sets remoteEOF; if the
\* local endpoint is a stream and localEOF is not set it submits a half-close
\* of the local output and tears down only if that submission fails;
\* if localEOF is set or the endpoint is UDP it tears the session down and
\* submits no half-close.
C15_RemoteEofHalfCloseOrTeardown ==
    [][ ( /\ ev'.kind = "data" /\ ev'.len = ZITI_EOF
          /\ conn.data /\ ~br.closed ) =>
            /\ br'.ziti_eof
            /\ ~crashed'
            /\ IF ~br.input_eof /\ handle.type \in StreamTypes
               THEN /\ "uv_shutdown" \in fx'
                    /\ ("teardown" \in fx') <=> (ev'.src # ZITI_OK)
                    /\ br'.closed <=> (ev'.src # ZITI_OK)
                    /\ (ev'.src = ZITI_OK) =>
                          handle'.shut_pending = handle.shut_pending + 1
               ELSE /\ "teardown" \in fx' /\ br'.closed
                    /\ "uv_shutdown" \notin fx'
                    /\ handle'.shut_pending = handle.shut_pending
      ]_vars

C15_Witness ==
    /\ ev.kind = "data" /\ ev.len = ZITI_EOF /\ ev.src = ZITI_OK
    /\ handle.type \in StreamTypes
    /\ br.ziti_eof /\ ~br.input_eof /\ ~br.closed
    /\ fx = {"uv_shutdown"}
    /\ handle.shut_pending = 1

\* C16: a half-close completion with status 0 or UV_ECANCELED tears nothing
\* down and changes no session state (the request is gone, nothing else);
\* any other status tears the session down, and changes nothing if the
\* session is closed already.
C16_ShutdownCompletion ==
    [][ (ev'.kind = "shutdown_done") =>
            /\ ~crashed'
            /\ handle'.shut_pending = handle.shut_pending - 1
            /\ IF ev'.len \in {ZITI_OK, UV_ECANCELED} \/ br.closed
               THEN /\ fx' = {}
                    /\ br' = br /\ conn' = conn /\ pool' = pool /\ fdbr' = fdbr
                    /\ handle' = [handle EXCEPT !.shut_pending = @ - 1]
               ELSE /\ "teardown" \in fx'
                    /\ br'.closed
      ]_vars

C16_Witness ==
    /\ ev.kind = "shutdown_done" /\ ev.len = UV_EPIPE
    /\ "teardown" \in fx
    /\ br.closed /\ br.ziti_eof /\ ~br.input_eof
    /\ handle.shut_pending = 0

\* C17: teardown marks the session closed, then closes the local
\* endpoint(s), then requests the close of the remote connection; the pool
\* and the session record are released only by on_ziti_close, after a
\* teardown, so every event between teardown and on_ziti_close finds them;
\* and no buffer is returned once the pool is destroyed.
C17_TeardownOrderReleaseLast ==
    [][ /\ ("teardown" \in fx' /\ br.state = "live") =>
              /\ hist'.tlog = <<"closed", "close_local", "ziti_close">>
              /\ br'.closed /\ ~br'.input
              /\ handle'.istate = "closing" /\ handle'.ostate = "closing"
              /\ conn'.close_reqs = conn.close_reqs + 1
              /\ br'.state = "live" /\ pool'.exists
        /\ (br'.state = "freed" /\ br.state # "freed") =>
              /\ ev'.kind = "ziti_closed"
              /\ br.closed /\ conn.close_reqs > 0
              /\ "free" \in fx'
        /\ (pool.exists /\ ~pool'.exists) =>
              (ev'.kind = "ziti_closed" /\ br'.state = "freed")
        /\ (br.state = "live" /\ br.closed /\ ev'.kind # "ziti_closed") =>
              (br'.state = "live" /\ pool'.exists)
        /\ (pool'.out < pool.out \/ pool'.dbl > pool.dbl) => pool.exists
        /\ ~pool.exists => conn.wr_pending = 0 \/ br.state = "none"
      ]_vars

C17_Witness ==
    /\ ev.kind = "ziti_closed"
    /\ "free" \in fx
    /\ br.state = "freed" /\ ~pool.exists
    /\ hist.tlog = <<"closed", "close_local", "ziti_close">>
    /\ handle.istate = "closed" /\ handle.ostate = "closed"
    /\ handle.two

\* C18: an event handled after teardown has begun and before the record is
\* released does nothing to the endpoints: remote data or EOF does not write
\* to or half-close the closed output and does not read the cleared input,
\* a read completion submits no remote write, and a write completion does
\* not restart reads.
C18_CompletionsAfterCloseAreNoOps ==
    [][ (br.state = "live" /\ br.closed) =>
            /\ (ev'.kind = "data") =>
                  /\ "try_write" \notin fx'
                  /\ "uv_shutdown" \notin fx'
                  /\ ~crashed'
            /\ (ev'.kind = "read") => "ziti_write" \notin fx'
            /\ (ev'.kind = "write_done") => "read_start" \notin fx'
      ]_vars

----------------------------------------------------------------------------
(* Properties of the flow control (checked under SpecFlow and Spec).        *)

Throttled == br.state = "live" /\ br.input_throttle /\ ~br.closed

\* C19: the throttle flag is set only while local reads are stopped; a
\* throttled session that is not closed has at least one remote write
\* outstanding; and, every accepted write completing, a throttled session
\* eventually has its reads resumed with the flag cleared, or is closed.
C19_ThrottlePairedWithResume ==
    /\ [](br.input_throttle => ~handle.reading)
    /\ [](Throttled => conn.wr_pending > 0)
    /\ (Throttled ~> (~br.input_throttle \/ br.closed))

C19_Witness ==
    /\ ev.kind = "write_done" /\ ev.len = ZITI_OK
    /\ "read_start" \in fx
    /\ ~br.input_throttle /\ handle.reading /\ ~br.closed
    /\ pool.out = BRIDGE_POOL_SIZE - 1

\* C20: a read event pauses local reads only when all BRIDGE_POOL_SIZE
\* buffers are on loan to remote writes that have not completed; with fewer
\* on loan a read event gets a buffer, and the bytes it read are forwarded as
\* one remote write of exactly that length, at most BRIDGE_MSG_SIZE.
C20_PauseOnlyAtPoolCapacity ==
    [][ (ev'.kind = "read") =>
            /\ ("read_stop" \in fx' \/ (br'.input_throttle /\ ~br.input_throttle)) =>
                  /\ pool.out = BRIDGE_POOL_SIZE
                  /\ conn.wr_pending = BRIDGE_POOL_SIZE
                  /\ pool' = pool /\ conn' = conn
            /\ (pool.out < BRIDGE_POOL_SIZE) =>
                  /\ ev'.len # UV_ENOBUFS
                  /\ "read_stop" \notin fx'
                  /\ ~br'.input_throttle
            /\ IF IsPos(ev'.len)
               THEN /\ sent' = <<ev'.len.n>>
                    /\ ev'.len.n <= BRIDGE_MSG_SIZE
                    /\ (ev'.rc = ZITI_OK) =>
                          conn'.wr_pending = conn.wr_pending + 1
               ELSE sent' = << >> /\ conn'.wr_pending = conn.wr_pending
      ]_vars

C20_Witness ==
    /\ ev.kind = "read" /\ ev.len = Bytes(BRIDGE_MSG_SIZE) /\ ev.rc = ZITI_OK
    /\ sent = <<BRIDGE_MSG_SIZE>>
    /\ conn.wr_pending = BRIDGE_POOL_SIZE
    /\ pool.out = BRIDGE_POOL_SIZE
    /\ handle.reading /\ ~br.input_throttle /\ ~br.closed

----------------------------------------------------------------------------
(* Properties of the idle deadline after release and of the attach result   *)
(* (checked under Spec).                                                     *)

\* C21: on_bridge_idle never runs on a session record that has been
\* released; once a session with a non-zero idle timeout was torn down for
\* a reason other than idle expiry and on_ziti_close has released its
\* record, no idle deadline of the session is armed.
C21_NoDeadlineOnReleasedRecord ==
    /\ ev.kind # "idle_dangling"
    /\ (br.state = "freed" /\ br.idle_timeout > 0 /\ ~hist.idle) => br.idler = -1

\* C22: when ziti_conn_bridge or ziti_conn_bridge_fds returns success the
\* session it made is not closed and its local reads are started; when
\* starting the local read fails the session is torn down and the attach
\* returns UV_ECONNABORTED, with one handle and with two descriptors alike.
C22_AttachSuccessMeansActive ==
    (ev.kind \in {"attach", "attach_fds"}) =>
        /\ (ret = ZITI_OK) =>
              (br.state = "live" /\ ~br.closed /\ handle.reading)
        /\ (ev.rrc # ZITI_OK) =>
              (br.closed /\ "teardown" \in fx /\ ret = UV_ECONNABORTED)

====
